---- MODULE Spec2Model ----
(***************************************************************************)
(* Model of agent/association/executer/executer.go: the association        *)
(* executer that moves a document pending -> current -> completed, runs    *)
(* its plugins through the plugin engine, persists the reply and reports   *)
(* the association status.                                                 *)
(***************************************************************************)
EXTENDS Integers, Sequences, FiniteSets, TLC

\* ---------------------------------------------------------------- bounds
MaxPlugins == 2        \* plugins of the larger document
MaxNames == 2          \* plugin names in an aggregated status mapping
MaxTotal == 2          \* largest declared total handed to buildOutput
MaxClock == 3          \* ticks of the wall clock

\* ------------------------------------------------------------- constants
DefaultLocationOfPending == "pending"
DefaultLocationOfCurrent == "current"
DefaultLocationOfCompleted == "completed"
Locations ==
  {DefaultLocationOfPending, DefaultLocationOfCurrent, DefaultLocationOfCompleted}

ResultStatusNotStarted == "NotStarted"
ResultStatusInProgress == "InProgress"
ResultStatusSuccess == "Success"
ResultStatusSuccessAndReboot == "SuccessAndReboot"
ResultStatusPassedAndReboot == "PassedAndReboot"
ResultStatusFailed == "Failed"
ResultStatusCancelled == "Cancelled"
ResultStatusTimedOut == "TimedOut"
ResultStatuses ==
  {"", ResultStatusNotStarted, ResultStatusInProgress, ResultStatusSuccess,
   ResultStatusSuccessAndReboot, ResultStatusPassedAndReboot,
   ResultStatusFailed, ResultStatusCancelled, ResultStatusTimedOut}

AssociationStatusPending == "Pending"
AssociationStatusInProgress == "InProgress"
AssociationStatusSuccess == "Success"
AssociationStatusNameFailed == "Failed"
AssociationErrorCodeNoError == "NoError"
AssociationErrorCodeExecutionError == "ExecutionError"
documentPendingMessage == "Association is pending"

\* ------------------------------------------------------- pure functions
\* number of entries of a mapping
Size(f) == Cardinality(DOMAIN f)

\* filterByStatus keeps the entries whose status satisfies the predicate;
\* the predicate is given as the set of statuses it accepts.
filterByStatus(runtimeStatuses, accepted) ==
  [name \in {n \in DOMAIN runtimeStatuses : runtimeStatuses[n] \in accepted}
     |-> runtimeStatuses[name]]

\* the first predicate, were it to reject "not-started" as well
CompletedStatusesStarted == ResultStatuses \ {"", ResultStatusNotStarted}

\* the four predicates of buildOutput, as the sets of statuses they accept
CompletedStatuses == ResultStatuses \ {""}
SuccessStatuses ==
  {ResultStatusPassedAndReboot, ResultStatusSuccessAndReboot, ResultStatusSuccess}
\* the third predicate, were it to accept "timed-out" as well
FailedStatusesAndTimedOut == {ResultStatusFailed, ResultStatusTimedOut}

FailedStatuses == {ResultStatusFailed}
TimedOutStatuses == {ResultStatusTimedOut}

\* the plural suffix, were the comparison off by one
PluralFromOne(totalNumberOfPlugins) ==
  IF totalNumberOfPlugins >= 1 THEN "s" ELSE ""

\* the plural suffix of buildOutput
Plural(totalNumberOfPlugins) == IF totalNumberOfPlugins > 1 THEN "s" ELSE ""

\* fmt.Sprintf(outputMessageTemplate, ...): the words of the sentence
outputMessageTemplate(completed, total, plural, success, failed, timedOut) ==
  <<completed, "out of", total, "plugin" \o plural, "processed,",
    success, "success,", failed, "failed,", timedOut, "timedout">>

buildOutput(runtimeStatuses, totalNumberOfPlugins) ==
  LET plural == Plural(totalNumberOfPlugins)
      completed == Size(filterByStatus(runtimeStatuses, CompletedStatuses))
      success == Size(filterByStatus(runtimeStatuses, SuccessStatuses))
      failed == Size(filterByStatus(runtimeStatuses, FailedStatuses))
      timedOut == Size(filterByStatus(runtimeStatuses, TimedOutStatuses))
  IN outputMessageTemplate(completed, totalNumberOfPlugins, plural,
                           success, failed, timedOut)

\* ------------------------------------------------------------ documents
Docs == {1, 2, 3}
Tasks == {1, 2}

\* the documents differ in their number of plugins
PluginCount(d) == IF d = 1 THEN MaxPlugins ELSE 1

\* len(docState.InstancePluginsInformation): the ordered plugin list
InstancePluginsInformation(d) == [i \in 1..PluginCount(d) |-> <<"plugin", i>>]

\* platform.InstanceID(): every document of this agent is for the local node
platformInstanceID == "i-local"

\* r.agentInfo, copied into the reply payload's additional info
agentInfo == "agent-info"

NoDoc == [absent |-> TRUE]

\* a mapping with no entries
EmptyMap == [n \in {} |-> ""]

\* stateModel.DocumentInfo as the scheduler created it in "pending"
NewDocumentInfo(d) ==
  [AssociationID |-> <<"assoc", d>>,
   DocumentID |-> <<"doc", d>>,
   DocumentName |-> <<"name", d>>,
   InstanceID |-> platformInstanceID,
   CreatedDate |-> <<"created", d>>,
   DocumentStatus |-> ResultStatusNotStarted,
   RuntimeStatus |-> EmptyMap,
   DocumentTraceOutput |-> "stale-trace",
   AdditionalInfo |-> "stale-info",
   RebootRequired |-> FALSE]

\* GetDocumentInfo of a record that is not at the location asked for
EmptyDocumentInfo ==
  [AssociationID |-> "", DocumentID |-> "", DocumentName |-> "",
   InstanceID |-> "", CreatedDate |-> "", DocumentStatus |-> "",
   RuntimeStatus |-> EmptyMap, DocumentTraceOutput |-> "", AdditionalInfo |-> "",
   RebootRequired |-> FALSE]

\* the statuses the plugin engine gives a plugin it ran
EngineStatuses == {ResultStatusSuccess, ResultStatusFailed, ResultStatusTimedOut}

VARIABLES
  store,                 \* durable store: document -> location -> record
  apiMode,               \* assocSvc.IsInstanceAssociationApiMode()
  pc,                    \* position of each ExecutePendingDocument call
  job,                   \* position of each pooled ExecuteInProgressDocument
  estep,                 \* next statement of ExecutePendingDocument
  taskDoc,               \* the document a unit of work was created for
  docState,              \* docState.DocumentInformation held in memory
  outputs,               \* cumulative plugin results of the engine
  totalNumberOfActions,  \* local of ExecuteInProgressDocument
  cancelFlag,            \* task.CancelFlag of the unit of work
  ret,                   \* what ExecutePendingDocument returned
  trace,                 \* effects issued by each unit of work, in order
  pluginList,            \* docState.InstancePluginsInformation in memory
  reporterDown,          \* the remote association service may refuse a push
  now,                   \* time.Now(), in clock ticks
  reportArgs,            \* arguments of direct associationExecutionReport calls
  pushed,                \* what each of those calls pushed to the service
  boStatuses,            \* argument of a buildOutput call
  boTotal,               \* argument of a buildOutput call
  boOut                  \* result of that call

vars == <<store, apiMode, pc, job, estep, taskDoc, docState, outputs,
          totalNumberOfActions, cancelFlag, ret, trace, pluginList,
          reporterDown, now, reportArgs, pushed, boStatuses, boTotal, boOut>>
boVars == <<boStatuses, boTotal, boOut>>
taskVars == <<store, apiMode, pc, job, estep, taskDoc, docState, outputs,
              totalNumberOfActions, cancelFlag, ret, trace, pluginList,
              reporterDown, now, reportArgs, pushed>>
\* the wall clock and the helper called on its own
clockVars == <<now, reportArgs, pushed>>
\* what a unit of work never assigns: the list other holders of the
\* docState pointer change, the condition of the remote service, the clock
otherVars == <<pluginList, reporterDown, clockVars>>

Event(op, arg) == [op |-> op, arg |-> arg]

\* ------------------------------------------------------- durable store
\* bookkeepingSvc.MoveDocumentState: rename from one location to the other;
\* a record that is not at the source location is left where it is
MoveDocumentState(st, documentID, from, to) ==
  LET d == documentID[2]
  IN IF documentID = "" \/ st[d][from] = NoDoc THEN st
     ELSE [st EXCEPT ![d] = [@ EXCEPT ![to] = st[d][from], ![from] = NoDoc]]

\* bookkeepingSvc.GetDocumentInfo
GetDocumentInfo(st, documentID, location) ==
  LET d == documentID[2]
  IN IF documentID = "" \/ st[d][location] = NoDoc
     THEN EmptyDocumentInfo ELSE st[d][location]

\* bookkeepingSvc.PersistDocumentInfo
PersistDocumentInfo(st, info, documentID, location) ==
  LET d == documentID[2]
  IN IF documentID = "" THEN st
     ELSE [st EXCEPT ![d] = [@ EXCEPT ![location] = info]]

\* ------------------------------------------------------ status reporter
\* the arguments of assocSvc.UpdateInstanceAssociationStatus but for the
\* execution date, which is the wall clock when the push is made
StatusUpdate(associationID, documentName, instanceID, status, errorCode, msg) ==
  [associationID |-> associationID, documentName |-> documentName,
   instanceID |-> instanceID, status |-> status, errorCode |-> errorCode,
   message |-> msg]

\* ---------------------------------------------------------------- reply
\* reply.PrepareRuntimeStatuses: one runtime status per plugin result
PrepareRuntimeStatuses(pluginOutputs) ==
  [name \in DOMAIN pluginOutputs |-> pluginOutputs[name]]

\* the overall document status of the reply payload
DocumentResultAggregator(runtimeStatuses) ==
  LET has(s) == \E n \in DOMAIN runtimeStatuses : runtimeStatuses[n] = s
  IN IF has(ResultStatusFailed) THEN ResultStatusFailed
     ELSE IF has(ResultStatusTimedOut) THEN ResultStatusTimedOut
     ELSE IF has(ResultStatusCancelled) THEN ResultStatusCancelled
     ELSE IF DOMAIN runtimeStatuses # {}
             /\ \A n \in DOMAIN runtimeStatuses :
                  runtimeStatuses[n] \in SuccessStatuses
          THEN ResultStatusSuccess
     ELSE ResultStatusInProgress

\* reply.PrepareReplyPayload("", runtimeStatuses, now, agentInfo, false)
PrepareReplyPayload(runtimeStatuses) ==
  [AdditionalInfo |-> agentInfo,
   DocumentStatus |-> DocumentResultAggregator(runtimeStatuses),
   DocumentTraceOutput |-> "",
   RuntimeStatus |-> runtimeStatuses]

\* docState.IsRebootRequired()
IsRebootRequired(info) == info.RebootRequired

\* ------------------------------------------------------------- reports
\* the progress callback, were it to skip the capability check
pluginExecutionReportNoModeCheck(associationID, pluginOutputs, totalNumberOfPlugins, marshalErr, instanceIDErr) ==
  IF marshalErr \/ instanceIDErr THEN <<>>
  ELSE <<Event("report",
               StatusUpdate(associationID, "", platformInstanceID,
                            AssociationStatusInProgress,
                            AssociationErrorCodeNoError,
                            buildOutput(PrepareRuntimeStatuses(pluginOutputs),
                                        totalNumberOfPlugins)))>>

\* the progress callback, were it to report the status of line 76
pluginExecutionReportPending(associationID, pluginOutputs, totalNumberOfPlugins, marshalErr, instanceIDErr) ==
  IF marshalErr \/ ~apiMode \/ instanceIDErr THEN <<>>
  ELSE <<Event("report",
               StatusUpdate(associationID, "", platformInstanceID,
                            AssociationStatusPending,
                            AssociationErrorCodeNoError,
                            buildOutput(PrepareRuntimeStatuses(pluginOutputs),
                                        totalNumberOfPlugins)))>>

\* pluginExecutionReport: the effects of one progress callback
pluginExecutionReport(associationID, pluginOutputs, totalNumberOfPlugins, marshalErr, instanceIDErr) ==
  IF marshalErr THEN <<>>
  ELSE IF ~apiMode THEN <<>>
  ELSE IF instanceIDErr THEN <<>>
  ELSE LET runtimeStatuses == PrepareRuntimeStatuses(pluginOutputs)
           executionSummary == buildOutput(runtimeStatuses, totalNumberOfPlugins)
       IN <<Event("report",
                  StatusUpdate(associationID, "", platformInstanceID,
                               AssociationStatusInProgress,
                               AssociationErrorCodeNoError,
                               executionSummary))>>

\* associationExecutionReport: the effects of one terminal report
associationExecutionReport(docInfo, runtimeStatuses, totalNumberOfPlugins, errorCode, associationStatus, marshalErr) ==
  IF marshalErr THEN <<>>
  ELSE LET executionSummary == buildOutput(runtimeStatuses, totalNumberOfPlugins)
       IN <<Event("report",
                  StatusUpdate(docInfo.AssociationID, docInfo.DocumentName,
                               docInfo.InstanceID, associationStatus,
                               errorCode, executionSummary))>>

\* ------------------------------------------------------------- pushes
\* assocSvc.UpdateInstanceAssociationStatus gives the caller no result: the
\* push reaches the service or it does not
PushOutcomes == IF reporterDown THEN BOOLEAN ELSE {FALSE}

\* the effects of the reports of one statement, the last of which the
\* service refused when pushErr
Pushed(reports, pushErr) ==
  IF pushErr /\ reports # <<>> /\ reports[Len(reports)].op = "report"
  THEN reports \o <<Event("pushFailed", reports[Len(reports)].arg.status)>>
  ELSE reports

\* the caller, were it to stop when a push is refused
PushHaltsOnError(reports, pushErr) == Pushed(reports, pushErr) # reports

\* lines 71, 224 and 252: the call is a statement, nothing is inspected
PushHalts(reports, pushErr) == FALSE

\* ------------------------------------------------ ExecutePendingDocument
\* the statements, were the submission to come before the move
EnqueueOrderSubmitFirst == <<"report", "submit", "move">>

\* the statements of ExecutePendingDocument, in program order
EnqueueOrder == <<"report", "move", "submit">>

EnqueueAt(t, stmt) ==
  /\ pc[t] = "enqueue"
  /\ estep[t] \in DOMAIN EnqueueOrder
  /\ EnqueueOrder[estep[t]] = stmt

\* go to the next statement; line 93 returns nil after the last one
EnqueueAdvance(t) ==
  IF estep[t] = Len(EnqueueOrder)
  THEN /\ pc' = [pc EXCEPT ![t] = "returned"]
       /\ ret' = [ret EXCEPT ![t] = "nil"]
       /\ estep' = [estep EXCEPT ![t] = estep[t] + 1]
  ELSE /\ estep' = [estep EXCEPT ![t] = estep[t] + 1]
       /\ UNCHANGED <<pc, ret>>

\* the scheduler calls ExecutePendingDocument for a document in "pending"
CallExecutePending(t) ==
  /\ pc[t] = "idle"
  /\ store[taskDoc[t]][DefaultLocationOfPending] # NoDoc
  /\ pc' = [pc EXCEPT ![t] = "enqueue"]
  /\ estep' = [estep EXCEPT ![t] = 1]
  /\ docState' = [docState EXCEPT
                    ![t] = store[taskDoc[t]][DefaultLocationOfPending]]
  /\ trace' = [trace EXCEPT ![t] = Append(@, Event("call", ""))]
  /\ UNCHANGED <<store, apiMode, job, taskDoc, outputs, totalNumberOfActions,
                 cancelFlag, ret, boVars, otherVars>>

\* lines 71-79: report the remote status "pending"
EnqueueReport(t) ==
  /\ EnqueueAt(t, "report")
  /\ \E pushErr \in PushOutcomes :
       LET reports == <<Event("report",
              StatusUpdate(docState[t].AssociationID, docState[t].DocumentName,
                           docState[t].InstanceID, AssociationStatusPending,
                           AssociationErrorCodeNoError, documentPendingMessage))>>
       IN /\ trace' = [trace EXCEPT ![t] = @ \o Pushed(reports, pushErr)]
          /\ IF PushHalts(reports, pushErr)
             THEN /\ pc' = [pc EXCEPT ![t] = "returned"]
                  /\ ret' = [ret EXCEPT ![t] = "error"]
                  /\ estep' = [estep EXCEPT ![t] = Len(EnqueueOrder) + 1]
             ELSE EnqueueAdvance(t)
  /\ UNCHANGED <<store, apiMode, job, taskDoc, docState, outputs,
                 totalNumberOfActions, cancelFlag, boVars, otherVars>>

\* the move, were the call to persist its document to "current" as well
EnqueueMoveAndPersist(t) ==
  /\ EnqueueAt(t, "move")
  /\ store' = PersistDocumentInfo(
                 MoveDocumentState(store, docState[t].DocumentID,
                                   DefaultLocationOfPending,
                                   DefaultLocationOfCurrent),
                 docState[t], docState[t].DocumentID, DefaultLocationOfCurrent)
  /\ trace' = [trace EXCEPT ![t] = Append(@,
        Event("move", <<DefaultLocationOfPending, DefaultLocationOfCurrent>>))]
  /\ EnqueueAdvance(t)
  /\ UNCHANGED <<apiMode, job, taskDoc, docState, outputs,
                 totalNumberOfActions, cancelFlag, boVars, otherVars>>

\* lines 81-85: move the record from "pending" to "current"
EnqueueMove(t) ==
  /\ EnqueueAt(t, "move")
  /\ store' = MoveDocumentState(store, docState[t].DocumentID,
                                DefaultLocationOfPending, DefaultLocationOfCurrent)
  /\ trace' = [trace EXCEPT ![t] = Append(@,
        Event("move", <<DefaultLocationOfPending, DefaultLocationOfCurrent>>))]
  /\ EnqueueAdvance(t)
  /\ UNCHANGED <<apiMode, job, taskDoc, docState, outputs,
                 totalNumberOfActions, cancelFlag, boVars, otherVars>>

\* the return value, were the submission error dropped
SubmitReturnNil(submitErr) == "nil"

\* lines 89-93: what the call returns after pool.Submit
SubmitReturn(submitErr) == IF submitErr THEN "error" ELSE "nil"

\* lines 87-93: submit to the pool; the pool accepts the job or rejects it
EnqueueSubmit(t) ==
  /\ EnqueueAt(t, "submit")
  /\ \E submitErr \in BOOLEAN :
       /\ trace' = [trace EXCEPT ![t] = Append(@,
             Event("submit", <<docState[t].AssociationID, submitErr>>))]
       /\ job' = [job EXCEPT ![t] = IF submitErr THEN @ ELSE "queued"]
       /\ IF submitErr \/ estep[t] = Len(EnqueueOrder)
          THEN /\ pc' = [pc EXCEPT ![t] = "returned"]
               /\ ret' = [ret EXCEPT ![t] = SubmitReturn(submitErr)]
               /\ estep' = [estep EXCEPT ![t] = Len(EnqueueOrder) + 1]
          ELSE /\ estep' = [estep EXCEPT ![t] = estep[t] + 1]
               /\ UNCHANGED <<pc, ret>>
  /\ UNCHANGED <<store, apiMode, taskDoc, docState, outputs,
                 totalNumberOfActions, cancelFlag, boVars, otherVars>>

\* --------------------------------------------- ExecuteInProgressDocument
\* the deferred calls, were the notification left out
DeferredCallsNoSignal(associationID) ==
  <<Event("UpdateNextScheduledDate", associationID)>>

\* lines 101-104: the deferred calls, in the order the closure makes them
DeferredCalls(associationID) ==
  <<Event("UpdateNextScheduledDate", associationID),
    Event("ExecuteAssociation", "")>>

\* the start of the job, were the number of plugins kept in a variable of
\* the package
RunStartSharedTotal(t) ==
  /\ job[t] = "queued"
  /\ job' = [job EXCEPT ![t] = "plugins"]
  /\ totalNumberOfActions' = [u \in Tasks |-> Len(pluginList[t])]
  /\ trace' = [trace EXCEPT ![t] = Append(@, Event("start", Len(pluginList[t])))]
  /\ UNCHANGED <<store, apiMode, pc, estep, taskDoc, docState, outputs,
                 cancelFlag, ret, boVars, otherVars>>

\* the pool starts the job; line 106 records the number of plugins
RunStart(t) ==
  /\ job[t] = "queued"
  /\ job' = [job EXCEPT ![t] = "plugins"]
  /\ totalNumberOfActions' = [totalNumberOfActions EXCEPT
        ![t] = Len(pluginList[t])]
  /\ trace' = [trace EXCEPT ![t] = Append(@, Event("start", Len(pluginList[t])))]
  /\ UNCHANGED <<store, apiMode, pc, estep, taskDoc, docState, outputs,
                 cancelFlag, ret, boVars, otherVars>>

\* the pool cancels a job it holds
Cancel(t) ==
  /\ job[t] = "plugins"
  /\ ~cancelFlag[t]
  /\ cancelFlag' = [cancelFlag EXCEPT ![t] = TRUE]
  /\ UNCHANGED <<store, apiMode, pc, job, estep, taskDoc, docState, outputs,
                 totalNumberOfActions, ret, trace, boVars, otherVars>>

\* another holder of the docState pointer adds a plugin to the list, or
\* removes the last one, while the routine runs; the engine keeps the list
\* it was called with at line 111
ChangePluginList(t) ==
  /\ job[t] = "plugins"
  /\ pluginList[t] = InstancePluginsInformation(taskDoc[t])
  /\ \E grow \in BOOLEAN :
       pluginList' = [pluginList EXCEPT ![t] =
          IF grow THEN Append(@, <<"plugin", Len(@) + 1>>)
          ELSE SubSeq(@, 1, Len(@) - 1)]
  /\ UNCHANGED <<store, apiMode, pc, job, estep, taskDoc, docState, outputs,
                 totalNumberOfActions, cancelFlag, ret, trace,
                 reporterDown, clockVars, boVars>>

\* the plugin engine records that a plugin that succeeded asked for a reboot
EngineSetReboot(st, d, reboot) ==
  IF reboot /\ st[d][DefaultLocationOfCurrent] # NoDoc
  THEN [st EXCEPT ![d] = [@ EXCEPT ![DefaultLocationOfCurrent] =
                                [@ EXCEPT !.RebootRequired = TRUE]]]
  ELSE st

\* lines 107-114, one plugin: the engine runs the next plugin of the list
\* and is about to call the progress callback with the cumulative results
RunPlugin(t) ==
  /\ job[t] = "plugins"
  /\ ~cancelFlag[t]
  /\ Size(outputs[t]) < Len(InstancePluginsInformation(taskDoc[t]))
  /\ \E status \in EngineStatuses, reboot \in BOOLEAN :
       LET plugins == InstancePluginsInformation(taskDoc[t])
           name == plugins[Size(outputs[t]) + 1]
           results == [n \in DOMAIN outputs[t] \cup {name} |->
                         IF n = name THEN status ELSE outputs[t][n]]
       IN /\ reboot => status = ResultStatusSuccess
          /\ outputs' = [outputs EXCEPT ![t] = results]
          /\ store' = EngineSetReboot(store, taskDoc[t], reboot)
  /\ job' = [job EXCEPT ![t] = "callback"]
  /\ UNCHANGED <<apiMode, pc, estep, taskDoc, docState,
                 totalNumberOfActions, cancelFlag, ret, trace, boVars, otherVars>>

\* lines 195-233: the engine calls r.pluginExecutionReport, which returns
ProgressCallback(t) ==
  /\ job[t] = "callback"
  /\ \E marshalErr \in BOOLEAN, instanceIDErr \in BOOLEAN, pushErr \in PushOutcomes :
       LET reports == pluginExecutionReport(
                         docState[t].AssociationID, outputs[t],
                         Len(InstancePluginsInformation(taskDoc[t])),
                         marshalErr, instanceIDErr)
       IN /\ trace' = [trace EXCEPT ![t] = @ \o
                <<Event("callback", [pluginOutputs |-> outputs[t],
                                     marshalErr |-> marshalErr,
                                     instanceIDErr |-> instanceIDErr])>> \o
                Pushed(reports, pushErr)]
          /\ job' = [job EXCEPT ![t] =
                IF PushHalts(reports, pushErr) THEN "defer" ELSE "plugins"]
  /\ UNCHANGED <<store, apiMode, pc, estep, taskDoc, docState, outputs,
                 totalNumberOfActions, cancelFlag, ret, boVars, otherVars>>

\* the first serialization, were its error logged and not returned from
AfterMarshalContinue(marshalErr) == "parse"

\* lines 116-120: a serialization error returns from the routine
AfterMarshal(marshalErr) == IF marshalErr THEN "defer" ELSE "parse"

\* lines 107-121: the engine returns (every plugin ran, or the run was
\* cancelled) and the results are serialized
RunPluginsReturn(t) ==
  /\ job[t] = "plugins"
  /\ \/ cancelFlag[t]
     \/ Size(outputs[t]) = Len(InstancePluginsInformation(taskDoc[t]))
  /\ \E marshalErr \in BOOLEAN :
       /\ job' = [job EXCEPT ![t] = AfterMarshal(marshalErr)]
       /\ trace' = [trace EXCEPT ![t] = Append(@, Event("marshal", marshalErr))]
  /\ UNCHANGED <<store, apiMode, pc, estep, taskDoc, docState, outputs,
                 totalNumberOfActions, cancelFlag, ret, boVars, otherVars>>

\* lines 171-174: parseAndPersistReplyContents re-loads the record
ParseLoad(t) ==
  /\ job[t] = "parse"
  /\ docState' = [docState EXCEPT ![t] =
        GetDocumentInfo(store, docState[t].DocumentID, DefaultLocationOfCurrent)]
  /\ job' = [job EXCEPT ![t] = "overlay"]
  /\ trace' = [trace EXCEPT ![t] = Append(@, Event("load", docState'[t]))]
  /\ UNCHANGED <<store, apiMode, pc, estep, taskDoc, outputs,
                 totalNumberOfActions, cancelFlag, ret, boVars, otherVars>>

\* the overlay, were it to reset the creation date as well
OverlayReplyAndDate(info, replyPayload) ==
  [info EXCEPT !.AdditionalInfo = replyPayload.AdditionalInfo,
               !.DocumentStatus = replyPayload.DocumentStatus,
               !.DocumentTraceOutput = replyPayload.DocumentTraceOutput,
               !.RuntimeStatus = replyPayload.RuntimeStatus,
               !.CreatedDate = <<"created", 0>>]

\* lines 176-183: the reply payload overwrites four fields
OverlayReply(info, replyPayload) ==
  [info EXCEPT !.AdditionalInfo = replyPayload.AdditionalInfo,
               !.DocumentStatus = replyPayload.DocumentStatus,
               !.DocumentTraceOutput = replyPayload.DocumentTraceOutput,
               !.RuntimeStatus = replyPayload.RuntimeStatus]

\* lines 176-190: build the reply, overlay it and persist to "current"
ParsePersist(t) ==
  /\ job[t] = "overlay"
  /\ LET runtimeStatuses == PrepareRuntimeStatuses(outputs[t])
         replyPayload == PrepareReplyPayload(runtimeStatuses)
         merged == OverlayReply(docState[t], replyPayload)
     IN /\ docState' = [docState EXCEPT ![t] = merged]
        /\ store' = PersistDocumentInfo(store, merged, merged.DocumentID,
                                        DefaultLocationOfCurrent)
        /\ trace' = [trace EXCEPT ![t] = Append(@, Event("persist", merged))]
  /\ job' = [job EXCEPT ![t] = "respond"]
  /\ UNCHANGED <<apiMode, pc, estep, taskDoc, outputs, totalNumberOfActions,
                 cancelFlag, ret, boVars, otherVars>>

\* the terminal report, were every status that is not "failed" reported
\* as success
TerminalReportElseSuccess(info, total, marshalErr) ==
  IF info.DocumentStatus = ResultStatusFailed
  THEN associationExecutionReport(info, info.RuntimeStatus, total,
                                  AssociationErrorCodeExecutionError,
                                  AssociationStatusNameFailed, marshalErr)
  ELSE associationExecutionReport(info, info.RuntimeStatus, total,
                                  AssociationErrorCodeNoError,
                                  AssociationStatusSuccess, marshalErr)

\* the terminal report, were a failed document reported with no error code
TerminalReportFailedNoCode(info, total, marshalErr) ==
  IF info.DocumentStatus = ResultStatusFailed
  THEN associationExecutionReport(info, info.RuntimeStatus, total,
                                  AssociationErrorCodeNoError,
                                  AssociationStatusNameFailed, marshalErr)
  ELSE IF info.DocumentStatus = ResultStatusSuccess
  THEN associationExecutionReport(info, info.RuntimeStatus, total,
                                  AssociationErrorCodeNoError,
                                  AssociationStatusSuccess, marshalErr)
  ELSE <<>>

\* lines 137-154: the terminal report chosen by the aggregate status
TerminalReport(info, total, marshalErr) ==
  IF info.DocumentStatus = ResultStatusFailed
  THEN associationExecutionReport(info, info.RuntimeStatus, total,
                                  AssociationErrorCodeExecutionError,
                                  AssociationStatusNameFailed, marshalErr)
  ELSE IF info.DocumentStatus = ResultStatusSuccess
  THEN associationExecutionReport(info, info.RuntimeStatus, total,
                                  AssociationErrorCodeNoError,
                                  AssociationStatusSuccess, marshalErr)
  ELSE <<>>

\* the routine, were the reboot check of line 125 left out
RespondNoRebootCheck(info, total, marshalErr, reportMarshalErr) ==
  IF marshalErr
  THEN [next |-> "defer", events |-> <<Event("marshal", TRUE)>>]
  ELSE [next |-> "move",
        events |-> <<Event("marshal", FALSE),
                     Event("terminal", reportMarshalErr)>> \o
                   TerminalReport(info, total, reportMarshalErr)]

\* lines 125-154: halt on reboot, serialize again, report the terminal
\* status; gives the effects and where the routine goes next
Respond(info, total, marshalErr, reportMarshalErr) ==
  IF IsRebootRequired(info)
  THEN [next |-> "defer", events |-> <<Event("reboot", "")>>]
  ELSE IF marshalErr
  THEN [next |-> "defer", events |-> <<Event("marshal", TRUE)>>]
  ELSE [next |-> "move",
        events |-> <<Event("marshal", FALSE),
                     Event("terminal", reportMarshalErr)>> \o
                   TerminalReport(info, total, reportMarshalErr)]

\* the total of the summary, were the list measured when the report is made
SummaryTotalAtReport(t) == Len(pluginList[t])

\* the total of the summary, were it the number of results
SummaryTotalOfResults(t) == Size(docState[t].RuntimeStatus)

\* lines 142 and 151: the total handed to associationExecutionReport
SummaryTotal(t) == totalNumberOfActions[t]

RunRespond(t) ==
  /\ job[t] = "respond"
  /\ \E marshalErr \in BOOLEAN, reportMarshalErr \in BOOLEAN, pushErr \in PushOutcomes :
       LET r == Respond(docState[t], SummaryTotal(t),
                        marshalErr, reportMarshalErr)
       IN /\ job' = [job EXCEPT ![t] =
                IF PushHalts(r.events, pushErr) THEN "defer" ELSE r.next]
          /\ trace' = [trace EXCEPT ![t] = @ \o Pushed(r.events, pushErr)]
  /\ UNCHANGED <<store, apiMode, pc, estep, taskDoc, docState, outputs,
                 totalNumberOfActions, cancelFlag, ret, boVars, otherVars>>

\* the final move, were it to name the locations of line 84 and 85
RunMoveFromPending(t) ==
  /\ job[t] = "move"
  /\ store' = MoveDocumentState(store, docState[t].DocumentID,
                                DefaultLocationOfCurrent,
                                DefaultLocationOfPending)
  /\ trace' = [trace EXCEPT ![t] = Append(@,
        Event("move", <<DefaultLocationOfCurrent, DefaultLocationOfPending>>))]
  /\ job' = [job EXCEPT ![t] = "defer"]
  /\ UNCHANGED <<apiMode, pc, estep, taskDoc, docState, outputs,
                 totalNumberOfActions, cancelFlag, ret, boVars, otherVars>>

\* lines 158-162: move the record from "current" to "completed"
RunMove(t) ==
  /\ job[t] = "move"
  /\ store' = MoveDocumentState(store, docState[t].DocumentID,
                                DefaultLocationOfCurrent,
                                DefaultLocationOfCompleted)
  /\ trace' = [trace EXCEPT ![t] = Append(@,
        Event("move", <<DefaultLocationOfCurrent, DefaultLocationOfCompleted>>))]
  /\ job' = [job EXCEPT ![t] = "defer"]
  /\ UNCHANGED <<apiMode, pc, estep, taskDoc, docState, outputs,
                 totalNumberOfActions, cancelFlag, ret, boVars, otherVars>>

\* lines 101-104: the deferred closure runs when the routine returns
RunDefer(t) ==
  /\ job[t] = "defer"
  /\ trace' = [trace EXCEPT ![t] = @ \o DeferredCalls(docState[t].AssociationID)]
  /\ job' = [job EXCEPT ![t] = "done"]
  /\ UNCHANGED <<store, apiMode, pc, estep, taskDoc, docState, outputs,
                 totalNumberOfActions, cancelFlag, ret, boVars, otherVars>>

\* ------------------------------------------------------- specification
\* the store holds the documents of `due` in "pending"
InitStore(due) ==
  [d \in Docs |-> [l \in Locations |->
     IF d \in due /\ l = DefaultLocationOfPending THEN NewDocumentInfo(d)
     ELSE NoDoc]]

InitTasks ==
  /\ pc = [t \in Tasks |-> "idle"]
  /\ job = [t \in Tasks |-> "none"]
  /\ estep = [t \in Tasks |-> 0]
  /\ docState = [t \in Tasks |-> EmptyDocumentInfo]
  /\ outputs = [t \in Tasks |-> EmptyMap]
  /\ totalNumberOfActions = [t \in Tasks |-> 0]
  /\ cancelFlag = [t \in Tasks |-> FALSE]
  /\ ret = [t \in Tasks |-> "none"]
  /\ trace = [t \in Tasks |-> <<>>]

\* the value of boOut before buildOutput is called
NotCalled == <<"not called">>

\* the clock when no direct call of the helper is made
NoArgs == <<"no call">>

InitClock ==
  /\ now = 0
  /\ reportArgs = NoArgs
  /\ pushed = <<>>

\* one document has become due
Init ==
  /\ InitTasks
  /\ \E d \in Docs : store = InitStore({d})
  /\ apiMode \in BOOLEAN
  /\ taskDoc = [t \in Tasks |-> t]
  /\ pluginList = [t \in Tasks |-> InstancePluginsInformation(taskDoc[t])]
  /\ reporterDown = FALSE
  /\ InitClock
  /\ boStatuses = EmptyMap
  /\ boTotal = 0
  /\ boOut = NotCalled

Next ==
  \E t \in Tasks :
    \/ CallExecutePending(t)
    \/ EnqueueReport(t)
    \/ EnqueueMove(t)
    \/ EnqueueSubmit(t)
    \/ RunStart(t)
    \/ Cancel(t)
    \/ ChangePluginList(t)
    \/ RunPlugin(t)
    \/ ProgressCallback(t)
    \/ RunPluginsReturn(t)
    \/ ParseLoad(t)
    \/ ParsePersist(t)
    \/ RunRespond(t)
    \/ RunMove(t)
    \/ RunDefer(t)

Spec == Init /\ [][Next]_vars

\* the document with the longest plugin list has become due while the
\* remote service refuses any push it likes
InitUnreliableReporter ==
  /\ InitTasks
  /\ store = InitStore({1})
  /\ apiMode \in BOOLEAN
  /\ taskDoc = [t \in Tasks |-> t]
  /\ pluginList = [t \in Tasks |-> InstancePluginsInformation(taskDoc[t])]
  /\ reporterDown = TRUE
  /\ InitClock
  /\ boStatuses = EmptyMap
  /\ boTotal = 0
  /\ boOut = NotCalled

SpecUnreliableReporter == InitUnreliableReporter /\ [][Next]_vars

\* the document with one plugin has become due and the scheduler may hand
\* it to ExecutePendingDocument twice, each call with a docState of its own
InitSameAssociation ==
  /\ InitTasks
  /\ store = InitStore({2})
  /\ apiMode \in BOOLEAN
  /\ taskDoc = [t \in Tasks |-> 2]
  /\ pluginList = [t \in Tasks |-> InstancePluginsInformation(taskDoc[t])]
  /\ reporterDown = FALSE
  /\ InitClock
  /\ boStatuses = EmptyMap
  /\ boTotal = 0
  /\ boOut = NotCalled

\* the steps of the two units of work; nothing else holds their docState
NextSameAssociation ==
  \E t \in Tasks :
    \/ CallExecutePending(t)
    \/ EnqueueReport(t)
    \/ EnqueueMove(t)
    \/ EnqueueSubmit(t)
    \/ RunStart(t)
    \/ Cancel(t)
    \/ RunPlugin(t)
    \/ ProgressCallback(t)
    \/ RunPluginsReturn(t)
    \/ ParseLoad(t)
    \/ ParsePersist(t)
    \/ RunRespond(t)
    \/ RunMove(t)
    \/ RunDefer(t)

SpecSameAssociation == InitSameAssociation /\ [][NextSameAssociation]_vars

\* the two documents with one plugin have become due, each handed to a
\* unit of work of its own
InitTwoAssociations ==
  /\ InitTasks
  /\ store = InitStore({2, 3})
  /\ apiMode \in BOOLEAN
  /\ taskDoc = [t \in Tasks |-> t + 1]
  /\ pluginList = [t \in Tasks |-> InstancePluginsInformation(taskDoc[t])]
  /\ reporterDown = FALSE
  /\ InitClock
  /\ boStatuses = EmptyMap
  /\ boTotal = 0
  /\ boOut = NotCalled

SpecTwoAssociations == InitTwoAssociations /\ [][NextSameAssociation]_vars

\* the runtime-status maps drawn as inputs
StatusMappings ==
  UNION {[names -> ResultStatuses] : names \in SUBSET (1..MaxNames)}

\* ----------------------------- associationExecutionReport called twice
\* the clock ticks of one unit of the timestamp format
ClockResolution == 2

\* times.ToIso8601UTC, were it to keep every tick of the clock
ToIso8601UTCEveryTick(time) == <<"iso8601", time>>

\* times.ToIso8601UTC: the time in the units of the format
ToIso8601UTC(time) == <<"iso8601", time \div ClockResolution>>

\* the call to the service, were the execution date taken when the agent
\* started and not when the push is made
UpdateInstanceAssociationStatusFixedDate(reports, time) ==
  [i \in DOMAIN reports |->
     [update |-> reports[i].arg, executionDate |-> ToIso8601UTC(0)]]

\* lines 252-260: the call to the service, with the execution date of
\* line 259
UpdateInstanceAssociationStatus(reports, time) ==
  [i \in DOMAIN reports |->
     [update |-> reports[i].arg, executionDate |-> ToIso8601UTC(time)]]

\* the argument pairs of lines 143-144 and 152-153
TerminalArguments ==
  {<<AssociationErrorCodeExecutionError, AssociationStatusNameFailed>>,
   <<AssociationErrorCodeNoError, AssociationStatusSuccess>>}

ReportCalls == 2

InitReportTwice ==
  /\ InitTasks
  /\ store = InitStore({})
  /\ apiMode = TRUE
  /\ taskDoc = [t \in Tasks |-> t]
  /\ pluginList = [t \in Tasks |-> InstancePluginsInformation(taskDoc[t])]
  /\ reporterDown = FALSE
  /\ now = 0
  /\ \E runtimeStatuses \in StatusMappings, total \in 0..MaxTotal,
        terminal \in TerminalArguments, marshalErr \in BOOLEAN :
       reportArgs = [docInfo |-> NewDocumentInfo(1),
                     runtimeStatuses |-> runtimeStatuses,
                     totalNumberOfPlugins |-> total,
                     errorCode |-> terminal[1],
                     associationStatus |-> terminal[2],
                     marshalErr |-> marshalErr]
  /\ pushed = <<>>
  /\ boStatuses = EmptyMap
  /\ boTotal = 0
  /\ boOut = NotCalled

\* time passes
Tick ==
  /\ now < MaxClock
  /\ now' = now + 1
  /\ UNCHANGED <<store, apiMode, pc, job, estep, taskDoc, docState, outputs,
                 totalNumberOfActions, cancelFlag, ret, trace, pluginList,
                 reporterDown, reportArgs, pushed, boVars>>

\* lines 236-261: one call of the helper with the arguments drawn
CallAssociationExecutionReport ==
  /\ Len(pushed) < ReportCalls
  /\ pushed' = Append(pushed,
        [at |-> now,
         pushes |-> UpdateInstanceAssociationStatus(
            associationExecutionReport(
               reportArgs.docInfo, reportArgs.runtimeStatuses,
               reportArgs.totalNumberOfPlugins, reportArgs.errorCode,
               reportArgs.associationStatus, reportArgs.marshalErr),
            now)])
  /\ UNCHANGED <<store, apiMode, pc, job, estep, taskDoc, docState, outputs,
                 totalNumberOfActions, cancelFlag, ret, trace, pluginList,
                 reporterDown, now, reportArgs, boVars>>

NextReportTwice == Tick \/ CallAssociationExecutionReport

SpecReportTwice == InitReportTwice /\ [][NextReportTwice]_vars

\* ------------------------------------------ buildOutput on its own inputs
InitBuildOutput ==
  /\ InitTasks
  /\ store = InitStore({})
  /\ apiMode = TRUE
  /\ taskDoc = [t \in Tasks |-> t]
  /\ pluginList = [t \in Tasks |-> InstancePluginsInformation(taskDoc[t])]
  /\ reporterDown = FALSE
  /\ InitClock
  /\ boStatuses \in StatusMappings
  /\ boTotal \in 0..MaxTotal
  /\ boOut = NotCalled

CallBuildOutput ==
  /\ boOut = NotCalled
  /\ boOut' = buildOutput(boStatuses, boTotal)
  /\ UNCHANGED <<boStatuses, boTotal>>
  /\ UNCHANGED taskVars

NextBuildOutput == CallBuildOutput

SpecBuildOutput == InitBuildOutput /\ [][NextBuildOutput]_vars

\* ------------------------------------------------- reading the traces
EventsAt(t, op) == {i \in DOMAIN trace[t] : trace[t][i].op = op}

ReportsAt(t, statuses) ==
  {i \in DOMAIN trace[t] :
     /\ trace[t][i].op = "report"
     /\ trace[t][i].arg.status \in statuses}

MovesAt(t, from, to) ==
  {i \in DOMAIN trace[t] :
     /\ trace[t][i].op = "move"
     /\ trace[t][i].arg = <<from, to>>}

TerminalStatuses == {AssociationStatusSuccess, AssociationStatusNameFailed}

AssociationOf(t) == NewDocumentInfo(taskDoc[t]).AssociationID

At(d, location) == store[d][location] # NoDoc

\* ------------------------------------------------------------------ C1
\* C1: on every exit path of ExecuteInProgressDocument the next-run
\* recomputation and the notification have each fired exactly once, as the
\* last two effects of the invocation, and before the exit neither has fired.
C1_CleanupExactlyOnce ==
  \A t \in Tasks :
    LET n == Len(trace[t])
        recompute == EventsAt(t, "UpdateNextScheduledDate")
        notify == EventsAt(t, "ExecuteAssociation")
    IN IF job[t] = "done"
       THEN /\ recompute = {n - 1}
            /\ notify = {n}
            /\ trace[t][n - 1].arg = AssociationOf(t)
       ELSE recompute = {} /\ notify = {}

\* a cancelled run has exited
C1_Witness ==
  \E t \in Tasks :
    /\ job[t] = "done"
    /\ cancelFlag[t]
    /\ Size(outputs[t]) < PluginCount(taskDoc[t])

\* ------------------------------------------------------------------ C2
\* C2: when the reboot-required flag is set after the reply was persisted,
\* the run never moves the record to "completed" and reports no terminal
\* status, and the cleanup still fires exactly once.
C2_RebootHalts ==
  \A t \in Tasks :
    (/\ job[t] \in {"respond", "defer", "done"}
     /\ IsRebootRequired(docState[t]))
    => /\ MovesAt(t, DefaultLocationOfCurrent, DefaultLocationOfCompleted) = {}
       /\ ReportsAt(t, TerminalStatuses) = {}
       /\ At(taskDoc[t], DefaultLocationOfCurrent)
       /\ ~At(taskDoc[t], DefaultLocationOfCompleted)
       /\ job[t] = "done" =>
            /\ Cardinality(EventsAt(t, "UpdateNextScheduledDate")) = 1
            /\ Cardinality(EventsAt(t, "ExecuteAssociation")) = 1

C2_Witness ==
  \E t \in Tasks :
    /\ job[t] = "done"
    /\ IsRebootRequired(docState[t])
    /\ EventsAt(t, "persist") # {}
    /\ Size(outputs[t]) = MaxPlugins

\* ------------------------------------------------------------------ C3
\* C3: ExecutePendingDocument reports "pending", then moves the record from
\* "pending" to "current", then submits under the association id, each once;
\* the routine has not started while the record is in "pending" or before
\* "pending" was reported.
C3_EnqueueOrder ==
  \A t \in Tasks :
    LET reported == ReportsAt(t, {AssociationStatusPending})
        moved == MovesAt(t, DefaultLocationOfPending, DefaultLocationOfCurrent)
        submitted == EventsAt(t, "submit")
    IN /\ \A j \in moved : \E i \in reported : i < j
       /\ \A k \in submitted : \E j \in moved : j < k
       /\ \A k \in submitted : trace[t][k].arg[1] = AssociationOf(t)
       /\ pc[t] = "returned" =>
            /\ Cardinality(reported) = 1
            /\ Cardinality(moved) = 1
            /\ Cardinality(submitted) = 1
       /\ job[t] # "none" =>
            /\ reported # {}
            /\ moved # {}
            /\ ~At(taskDoc[t], DefaultLocationOfPending)

C3_Witness ==
  \E t \in Tasks :
    /\ job[t] = "plugins"
    /\ pc[t] = "returned"
    /\ At(taskDoc[t], DefaultLocationOfCurrent)

\* ------------------------------------------------------------------ C4
\* C4: when Submit fails the call returns an error, submits no second time,
\* the routine is never run for that call and the record stays in "current";
\* when Submit succeeds the call returns nil.
C4_SubmitFailure ==
  \A t \in Tasks :
    LET submitted == EventsAt(t, "submit")
    IN /\ Cardinality(submitted) <= 1
       /\ ret[t] = "error" => submitted # {}
       /\ \A k \in submitted :
            IF trace[t][k].arg[2]
            THEN /\ ret[t] = "error"
                 /\ pc[t] = "returned"
                 /\ job[t] = "none"
                 /\ EventsAt(t, "start") = {}
                 /\ At(taskDoc[t], DefaultLocationOfCurrent)
                 /\ ~At(taskDoc[t], DefaultLocationOfPending)
                 /\ ~At(taskDoc[t], DefaultLocationOfCompleted)
            ELSE ret[t] = "nil"

C4_Witness ==
  \E t \in Tasks :
    /\ ret[t] = "error"
    /\ At(taskDoc[t], DefaultLocationOfCurrent)

\* ------------------------------------------------------------------ C5
\* the reports a run issued after it persisted the reply
ReportsAfterPersist(t) ==
  {i \in ReportsAt(t, {AssociationStatusPending, AssociationStatusInProgress}
                      \cup TerminalStatuses) :
     \E p \in EventsAt(t, "persist") : p < i}

\* the run reached the terminal report with no reboot pending and with no
\* serialization error, in the routine or in the report helper
ReachedTerminalReport(t) ==
  \E i \in EventsAt(t, "terminal") : trace[t][i].arg = FALSE

\* C5: with no reboot and no serialization error the terminal report is
\* decided by the aggregate status alone: "failed" reports failed with
\* execution-error, "success" reports success with no error, anything else
\* reports nothing; in all three cases the record is then moved from
\* "current" to "completed".
C5_TerminalByAggregate ==
  \A t \in Tasks :
    ReachedTerminalReport(t) =>
      LET info == docState[t]
          sent == ReportsAfterPersist(t)
          expected(status, code) ==
            Event("report",
                  StatusUpdate(info.AssociationID, info.DocumentName,
                               info.InstanceID, status, code,
                               buildOutput(info.RuntimeStatus,
                                           PluginCount(taskDoc[t]))))
      IN /\ info.DocumentStatus = ResultStatusFailed =>
              /\ Cardinality(sent) = 1
              /\ \A i \in sent :
                   trace[t][i] = expected(AssociationStatusNameFailed,
                                          AssociationErrorCodeExecutionError)
         /\ info.DocumentStatus = ResultStatusSuccess =>
              /\ Cardinality(sent) = 1
              /\ \A i \in sent :
                   trace[t][i] = expected(AssociationStatusSuccess,
                                          AssociationErrorCodeNoError)
         /\ info.DocumentStatus \notin {ResultStatusFailed, ResultStatusSuccess}
              => sent = {}
         /\ job[t] \in {"defer", "done"} =>
              /\ \E m \in MovesAt(t, DefaultLocationOfCurrent,
                                  DefaultLocationOfCompleted) :
                   \A i \in sent : i < m
              /\ At(taskDoc[t], DefaultLocationOfCompleted)
              /\ ~At(taskDoc[t], DefaultLocationOfCurrent)

\* a run whose aggregate status is neither success nor failed has completed
C5_Witness ==
  \E t \in Tasks :
    /\ job[t] = "done"
    /\ ReachedTerminalReport(t)
    /\ docState[t].DocumentStatus \notin {ResultStatusFailed, ResultStatusSuccess}
    /\ At(taskDoc[t], DefaultLocationOfCompleted)

\* ------------------------------------------------------------------ C6
\* C6: the remote status updates of a document that went through
\* ExecutePendingDocument and its pooled run are one "pending", then
\* "in-progress" updates (each from one progress callback), then at most one
\* terminal status; the reply is persisted before the terminal report and
\* the terminal report precedes the move to "completed".
C6_ReportSequence ==
  \A t \in Tasks :
    LET all == ReportsAt(t, {AssociationStatusPending,
                             AssociationStatusInProgress} \cup TerminalStatuses)
        pending == ReportsAt(t, {AssociationStatusPending})
        progress == ReportsAt(t, {AssociationStatusInProgress})
        terminal == ReportsAt(t, TerminalStatuses)
        completed == MovesAt(t, DefaultLocationOfCurrent,
                             DefaultLocationOfCompleted)
    IN /\ Cardinality(pending) <= 1
       /\ (pc[t] = "returned" \/ job[t] # "none") => Cardinality(pending) = 1
       /\ \A i \in all : trace[t][i].arg.associationID = AssociationOf(t)
       /\ \A i \in progress :
            /\ \E p \in pending : p < i
            /\ i > 1 /\ trace[t][i - 1].op = "callback"
       /\ Cardinality(terminal) <= 1
       /\ \A i \in terminal :
            /\ \A j \in pending \cup progress : j < i
            /\ \E p \in EventsAt(t, "persist") : p < i
            /\ \A m \in completed : i < m
       /\ \A m \in completed : \E p \in EventsAt(t, "persist") : p < m

C6_Witness ==
  \E t \in Tasks :
    /\ job[t] = "done"
    /\ Cardinality(ReportsAt(t, {AssociationStatusInProgress})) = MaxPlugins
    /\ ReportsAt(t, {AssociationStatusNameFailed}) # {}
    /\ At(taskDoc[t], DefaultLocationOfCompleted)

\* ------------------------------------------------------------------ C9
\* what each progress callback of the trace did
CallbackOutcomes ==
  \A t \in Tasks :
    /\ \A i \in EventsAt(t, "callback") :
         LET c == trace[t][i].arg
             sent == /\ i < Len(trace[t])
                     /\ trace[t][i + 1].op = "report"
         IN IF apiMode /\ ~c.marshalErr /\ ~c.instanceIDErr
            THEN /\ sent
                 /\ trace[t][i + 1].arg =
                      StatusUpdate(AssociationOf(t), "", platformInstanceID,
                                   AssociationStatusInProgress,
                                   AssociationErrorCodeNoError,
                                   buildOutput(
                                     PrepareRuntimeStatuses(c.pluginOutputs),
                                     PluginCount(taskDoc[t])))
            ELSE ~sent
    /\ \A i \in ReportsAt(t, {AssociationStatusInProgress}) :
         i > 1 /\ trace[t][i - 1].op = "callback"

\* a progress callback returns to the engine and leaves the store alone
CallbackFrame ==
  \A t \in Tasks :
    (job[t] = "callback" /\ job'[t] # "callback")
    => /\ job'[t] = "plugins"
       /\ store' = store
       /\ docState' = docState
       /\ outputs' = outputs

\* C9: pluginExecutionReport pushes an update only when the remote service
\* supports per-plugin updates, and then "in-progress" with no error code
\* and the summary of the cumulative results and the given total; without
\* the capability, or when serialization or node-id resolution fails, it
\* sends nothing; it always returns to the engine and never changes the
\* persisted record or its location.
C9_ProgressCallback == []CallbackOutcomes /\ [][CallbackFrame]_vars

\* one callback pushed its update and a later one failed to resolve the node id
C9_Witness ==
  \E t \in Tasks :
    \E i, j \in EventsAt(t, "callback") :
      /\ i < j
      /\ trace[t][i + 1].op = "report"
      /\ trace[t][j].arg.instanceIDErr
      /\ ~trace[t][j].arg.marshalErr
      /\ job[t] = "done"

\* ----------------------------------------------------------------- C10
PreservedFields ==
  {"AssociationID", "DocumentID", "DocumentName", "InstanceID", "CreatedDate",
   "RebootRequired"}

\* the persisted record is the re-loaded snapshot with four fields from the
\* reply payload
PersistIsOverlay ==
  \A t \in Tasks :
    /\ job[t] = "overlay" =>
         docState[t] = store[taskDoc[t]][DefaultLocationOfCurrent]
    /\ \A p \in EventsAt(t, "persist") :
         LET snapshot == trace[t][p - 1].arg
             written == trace[t][p].arg
             payload == PrepareReplyPayload(PrepareRuntimeStatuses(outputs[t]))
         IN /\ trace[t][p - 1].op = "load"
            /\ \A f \in PreservedFields : written[f] = snapshot[f]
            /\ written.DocumentStatus = payload.DocumentStatus
            /\ written.RuntimeStatus = payload.RuntimeStatus
            /\ written.DocumentTraceOutput = payload.DocumentTraceOutput
            /\ written.AdditionalInfo = payload.AdditionalInfo
            /\ job[t] = "respond" =>
                 store[taskDoc[t]][DefaultLocationOfCurrent] = written

\* step 2 leaves every record at the location it was at
ParseFrame ==
  \A t \in Tasks :
    (job[t] \in {"parse", "overlay"} /\ job'[t] # job[t])
    => \A d \in Docs, l \in Locations : At(d, l) <=> (store'[d][l] # NoDoc)

\* C10: parseAndPersistReplyContents writes back to "current" the snapshot it
\* re-loaded with exactly the aggregate status, runtime-status map, trace
\* output and additional info overwritten from the reply payload; the other
\* fields keep the snapshot's values and the record stays where it is.
C10_OverlayFrame == []PersistIsOverlay /\ [][ParseFrame]_vars

\* the snapshot re-loaded differs from the copy the run started with
C10_Witness ==
  \E t \in Tasks :
    /\ job[t] = "respond"
    /\ docState[t].RebootRequired
    /\ docState[t].DocumentStatus = ResultStatusSuccess
    /\ docState[t].AdditionalInfo = agentInfo

\* ------------------------------------------------------------------ C7
\* the word of the summary that carries the plural suffix
PluginWord == boOut[4]

\* C7 as stated: "plugin" when the total is 1, "plugins" when the total is 0
\* or greater than 1.
C7_Original ==
  boOut # NotCalled =>
    PluginWord = (IF boTotal = 1 THEN "plugin" ELSE "plugins")

\* C7 amended: "plugins" when the total is greater than 1, "plugin" when the
\* total is 0 or 1, whatever the number of processed plugins.
C7_PluralIffMoreThanOne ==
  boOut # NotCalled =>
    PluginWord = (IF boTotal > 1 THEN "plugins" ELSE "plugin")

\* a total of 0 with entries processed
C7_Witness ==
  /\ boOut # NotCalled
  /\ boTotal = 0
  /\ boOut[1] > 1
  /\ PluginWord = "plugin"

\* ------------------------------------------------------------------ C8
\* C8 as stated: processed counts the statuses that are neither empty nor
\* "not-started".
C8_Original ==
  boOut # NotCalled =>
    boOut[1] = Cardinality({n \in DOMAIN boStatuses :
                  boStatuses[n] \notin {"", ResultStatusNotStarted}})

\* C8 amended: processed counts the statuses that are not empty; a plugin
\* whose status is "not-started" is counted.
C8_ProcessedIsNonEmpty ==
  boOut # NotCalled =>
    boOut[1] = Cardinality({n \in DOMAIN boStatuses : boStatuses[n] # ""})

\* a "not-started" plugin and an empty status in one mapping
C8_Witness ==
  /\ boOut # NotCalled
  /\ \E n, m \in DOMAIN boStatuses :
       /\ boStatuses[n] = ResultStatusNotStarted
       /\ boStatuses[m] = ""
  /\ boOut[1] = 1

\* ----------------------------------------------------------------- C11
\* the run persisted a reply built from results of which one is failed
PersistedWithFailure(t) ==
  /\ job[t] \in {"respond", "move", "defer", "done"}
  /\ EventsAt(t, "persist") # {}
  /\ \E n \in DOMAIN outputs[t] : outputs[t][n] = ResultStatusFailed

\* C11: when any plugin result is failed the aggregate status after the
\* reply is built is "failed", whatever the other plugins did; with no
\* reboot and no serialization error the run then reports "failed" with
\* execution-error and still moves the record to "completed".
C11_FailurePrecedence ==
  \A t \in Tasks :
    PersistedWithFailure(t) =>
      /\ docState[t].DocumentStatus = ResultStatusFailed
      /\ store[taskDoc[t]][DefaultLocationOfCurrent] # NoDoc =>
           store[taskDoc[t]][DefaultLocationOfCurrent].DocumentStatus
             = ResultStatusFailed
      /\ ReachedTerminalReport(t) =>
           /\ Cardinality(ReportsAt(t, {AssociationStatusNameFailed})) = 1
           /\ ReportsAt(t, {AssociationStatusSuccess}) = {}
           /\ \A i \in ReportsAt(t, {AssociationStatusNameFailed}) :
                trace[t][i].arg.errorCode = AssociationErrorCodeExecutionError
           /\ job[t] \in {"defer", "done"} =>
                /\ At(taskDoc[t], DefaultLocationOfCompleted)
                /\ ~At(taskDoc[t], DefaultLocationOfCurrent)

\* one plugin succeeded, a later one failed, and the run completed
C11_Witness ==
  \E t \in Tasks :
    /\ job[t] = "done"
    /\ ReachedTerminalReport(t)
    /\ \E n, m \in DOMAIN outputs[t] :
         /\ outputs[t][n] = ResultStatusSuccess
         /\ outputs[t][m] = ResultStatusFailed
    /\ At(taskDoc[t], DefaultLocationOfCompleted)

\* ----------------------------------------------------------------- C15
\* a serialization of the plugin results failed in the routine
SerializationFailed(t) ==
  \E i \in EventsAt(t, "marshal") : trace[t][i].arg = TRUE

\* C15: when serializing the plugin results fails after the engine returns,
\* the run reports no terminal status and moves nothing, so the record is
\* in "current" when the run ends; when the first serialization fails the
\* run has not loaded or persisted the record either; the run is not
\* started again and the cleanup fires.
C15_SerializationFailure ==
  \A t \in Tasks :
    SerializationFailed(t) =>
      /\ job[t] \in {"defer", "done"}
      /\ ReportsAt(t, TerminalStatuses) = {}
      /\ MovesAt(t, DefaultLocationOfCurrent, DefaultLocationOfCompleted) = {}
      /\ At(taskDoc[t], DefaultLocationOfCurrent)
      /\ ~At(taskDoc[t], DefaultLocationOfCompleted)
      /\ ~At(taskDoc[t], DefaultLocationOfPending)
      /\ Cardinality(EventsAt(t, "start")) = 1
      /\ Cardinality(EventsAt(t, "marshal")) = 1 =>
           /\ EventsAt(t, "load") = {}
           /\ EventsAt(t, "persist") = {}
           /\ [store[taskDoc[t]][DefaultLocationOfCurrent]
                 EXCEPT !.RebootRequired = FALSE] = NewDocumentInfo(taskDoc[t])
      /\ job[t] = "done" =>
           /\ Cardinality(EventsAt(t, "UpdateNextScheduledDate")) = 1
           /\ Cardinality(EventsAt(t, "ExecuteAssociation")) = 1

\* the first serialization failed after every plugin had run
C15_Witness ==
  \E t \in Tasks :
    /\ job[t] = "done"
    /\ SerializationFailed(t)
    /\ Cardinality(EventsAt(t, "marshal")) = 1
    /\ Size(outputs[t]) = PluginCount(taskDoc[t])

\* ----------------------------------------------------------------- C18
\* C18: whenever a run has moved a record to "completed" with aggregate
\* status "success" or "failed", it pushed the terminal update with the
\* matching status and error code before the move.
C18_CompletedWasReported ==
  \A t \in Tasks :
    \A m \in MovesAt(t, DefaultLocationOfCurrent, DefaultLocationOfCompleted) :
      /\ docState[t].DocumentStatus = ResultStatusFailed =>
           \E i \in ReportsAt(t, {AssociationStatusNameFailed}) :
             /\ i < m
             /\ trace[t][i].arg.errorCode = AssociationErrorCodeExecutionError
      /\ docState[t].DocumentStatus = ResultStatusSuccess =>
           \E i \in ReportsAt(t, {AssociationStatusSuccess}) :
             /\ i < m
             /\ trace[t][i].arg.errorCode = AssociationErrorCodeNoError

\* ----------------------------------------------------------------- C19
\* the moves a call and its run issued, and when
MovesIssued ==
  \A t \in Tasks :
    LET forward == MovesAt(t, DefaultLocationOfPending, DefaultLocationOfCurrent)
        final == MovesAt(t, DefaultLocationOfCurrent, DefaultLocationOfCompleted)
    IN /\ EventsAt(t, "move") = forward \cup final
       /\ \A i \in forward : \A s \in EventsAt(t, "start") : i < s
       /\ \A i \in final : \E s \in EventsAt(t, "start") : s < i
       /\ Cardinality(final) <= 1
       /\ \A i \in final : \E p \in EventsAt(t, "persist") : p < i

\* a record changes location only forwards, one location at a time
LocationAdvances ==
  \A d \in Docs :
    \A l \in Locations :
      (~At(d, l) /\ store'[d][l] # NoDoc) =>
        \/ /\ l = DefaultLocationOfCurrent
           /\ At(d, DefaultLocationOfPending)
           /\ store'[d][DefaultLocationOfPending] = NoDoc
        \/ /\ l = DefaultLocationOfCompleted
           /\ At(d, DefaultLocationOfCurrent)
           /\ store'[d][DefaultLocationOfCurrent] = NoDoc

\* C19: a record only advances pending -> current -> completed:
\* ExecutePendingDocument issues only the move pending -> current, the run
\* only the move current -> completed, at most once and after it persisted
\* its reply; nothing moves a record backwards or from pending to completed.
C19_LifecycleAdvances == []MovesIssued /\ [][LocationAdvances]_vars

C19_Witness ==
  \E t \in Tasks :
    /\ job[t] = "done"
    /\ At(taskDoc[t], DefaultLocationOfCompleted)
    /\ ~At(taskDoc[t], DefaultLocationOfCurrent)
    /\ ~At(taskDoc[t], DefaultLocationOfPending)

\* ----------------------------------------------------------------- C20
CountOf(statuses) ==
  Cardinality({n \in DOMAIN boStatuses : boStatuses[n] \in statuses})

\* the counts of the summary
SummaryCounts ==
  boOut # NotCalled =>
    /\ boOut[6] + boOut[8] + boOut[10] <= boOut[1]
    /\ boOut[1] <= Size(boStatuses)
    /\ boOut[6] = CountOf({ResultStatusSuccess, ResultStatusSuccessAndReboot,
                           ResultStatusPassedAndReboot})
    /\ boOut[8] = CountOf({ResultStatusFailed})
    /\ boOut[10] = CountOf({ResultStatusTimedOut})
    /\ boOut[3] = boTotal

\* C20: succeeded + failed + timedOut <= processed <= entries of the
\* mapping, succeeded counts success, success-and-reboot and
\* passed-and-reboot, failed counts failed, timedOut counts timed-out;
\* buildOutput always returns a summary and leaves the mapping as it was.
C20_CountsOrdered ==
  /\ []SummaryCounts
  /\ [][boOut' # boOut => (boOut' # NotCalled /\ boStatuses' = boStatuses)]_vars

\* a mapping with a timed-out plugin and one in progress
C20_Witness ==
  /\ boOut # NotCalled
  /\ boOut[10] = 1
  /\ boOut[1] = 2
  /\ boOut[6] + boOut[8] + boOut[10] < boOut[1]

\* ----------------------------------------------------------------- C14
\* C14: the total of the terminal summary is the number of plugins of the
\* list when the routine started, before the engine was called; plugins
\* added or removed during the run, the number of results and the re-loaded
\* snapshot do not change it.
C14_TotalFixedAtStart ==
  \A t \in Tasks :
    /\ \A i \in EventsAt(t, "start") :
         /\ trace[t][i].arg = PluginCount(taskDoc[t])
         /\ totalNumberOfActions[t] = trace[t][i].arg
         /\ \A c \in EventsAt(t, "callback") : i < c
    /\ \A i \in ReportsAt(t, TerminalStatuses) :
         \E s \in EventsAt(t, "start") :
           /\ s < i
           /\ trace[t][i].arg.message[3] = trace[t][s].arg

\* a cancelled run with fewer results than plugins, whose list changed
\* during the run, pushed its terminal report
C14_Witness ==
  \E t \in Tasks :
    /\ ReportsAt(t, TerminalStatuses) # {}
    /\ Size(docState[t].RuntimeStatus) < PluginCount(taskDoc[t])
    /\ Len(pluginList[t]) # PluginCount(taskDoc[t])
    /\ job[t] = "done"

\* ------------------------------------------------------------------ C12
\* the pushes of task t that the service refused, by reported status
FailedPushes(t, statuses) ==
  {i \in EventsAt(t, "pushFailed") : trace[t][i].arg \in statuses}

\* C12: a refused status push changes nothing of what the core does next.
\* After a refused "pending" push the call still moves the record to
\* "current" and submits it, and its result tells of the submission only;
\* after a refused "in-progress" push the engine goes on to the end of the
\* plugin list; after a refused terminal push the persisted record is
\* still moved from "current" to "completed", as it was persisted.
C12_PushFailureIgnored ==
  \A t \in Tasks :
    /\ \A i \in FailedPushes(t, {AssociationStatusPending}) :
         pc[t] = "returned" =>
           /\ \E m \in MovesAt(t, DefaultLocationOfPending,
                                 DefaultLocationOfCurrent) : i < m
           /\ \E k \in EventsAt(t, "submit") :
                /\ i < k
                /\ ret[t] = SubmitReturn(trace[t][k].arg[2])
    /\ \A i \in FailedPushes(t, {AssociationStatusInProgress}) :
         job[t] \in {"defer", "done"} =>
           /\ \E k \in EventsAt(t, "marshal") : i < k
           /\ ~cancelFlag[t] => Size(outputs[t]) = PluginCount(taskDoc[t])
    /\ \A i \in FailedPushes(t, TerminalStatuses) :
         /\ trace[t][i - 1].op = "report"
         /\ job[t] \in {"defer", "done"} =>
              /\ \E m \in MovesAt(t, DefaultLocationOfCurrent,
                                    DefaultLocationOfCompleted) : i < m
              /\ store[taskDoc[t]][DefaultLocationOfCompleted] = docState[t]
              /\ store[taskDoc[t]][DefaultLocationOfCurrent] = NoDoc

\* every push of a run of two plugins was refused, and the run went through
C12_Witness ==
  \E t \in Tasks :
    /\ job[t] = "done"
    /\ pc[t] = "returned"
    /\ FailedPushes(t, {AssociationStatusPending}) # {}
    /\ Cardinality(FailedPushes(t, {AssociationStatusInProgress})) > 1
    /\ FailedPushes(t, TerminalStatuses) # {}
    /\ Cardinality(EventsAt(t, "pushFailed")) = Cardinality(ReportsAt(t,
          {AssociationStatusPending, AssociationStatusInProgress}
          \cup TerminalStatuses))

\* ------------------------------------------------------------------ C13
\* what a push says besides its execution date
PayloadOf(call) == [i \in DOMAIN call.pushes |-> call.pushes[i].update]

\* the execution dates of the pushes of a call
DatesOf(call) == [i \in DOMAIN call.pushes |-> call.pushes[i].executionDate]

\* C13 as stated: two calls with the same arguments push the same tuple,
\* execution date included
C13_Original ==
  Len(pushed) = ReportCalls => pushed[1].pushes = pushed[2].pushes

\* C13: two calls with the same arguments push the same association id,
\* document name, node id, status, error code and summary text, which are
\* those of the arguments; the execution date is read from the clock by
\* each call, and the two dates are the same exactly when both calls fall
\* in the same unit of the timestamp format.
C13_SameButForDate ==
  Len(pushed) = ReportCalls =>
    /\ PayloadOf(pushed[1]) = PayloadOf(pushed[2])
    /\ \A k \in 1..ReportCalls :
         IF reportArgs.marshalErr THEN pushed[k].pushes = <<>>
         ELSE /\ Len(pushed[k].pushes) = 1
              /\ pushed[k].pushes[1].update =
                   StatusUpdate(reportArgs.docInfo.AssociationID,
                                reportArgs.docInfo.DocumentName,
                                reportArgs.docInfo.InstanceID,
                                reportArgs.associationStatus,
                                reportArgs.errorCode,
                                buildOutput(reportArgs.runtimeStatuses,
                                            reportArgs.totalNumberOfPlugins))
    /\ ~reportArgs.marshalErr =>
         (DatesOf(pushed[1]) = DatesOf(pushed[2])
            <=> pushed[1].at \div ClockResolution
                  = pushed[2].at \div ClockResolution)

\* the same arguments were pushed twice, under two execution dates
C13_Witness ==
  /\ Len(pushed) = ReportCalls
  /\ pushed[1].pushes # <<>>
  /\ PayloadOf(pushed[1]) = PayloadOf(pushed[2])
  /\ DatesOf(pushed[1]) # DatesOf(pushed[2])

\* ------------------------------------------------------------------ C16
\* the positions of a unit of work the pool holds or runs
InFlight ==
  {"queued", "plugins", "callback", "parse", "overlay", "respond", "move",
   "defer"}

\* no other unit of work of the association of t is in flight
AloneInFlight(t) ==
  \A u \in Tasks \ {t} : taskDoc[u] = taskDoc[t] => job[u] \notin InFlight

\* between the load and the persist of parseAndPersistReplyContents the
\* record of a unit of work that is alone in flight is not written
NoWriteBetweenLoadAndPersist ==
  \A t \in Tasks :
    (job[t] = "overlay" /\ job'[t] = "overlay"
       /\ AloneInFlight(t) /\ AloneInFlight(t)')
      => store'[taskDoc[t]] = store[taskDoc[t]]

\* the snapshot a unit of work alone in flight overlays is the record
SnapshotIsFresh ==
  \A t \in Tasks :
    (job[t] = "overlay" /\ \A u \in Tasks \ {t} : job[u] = "none")
      => docState[t] = store[taskDoc[t]][DefaultLocationOfCurrent]

\* C16: the core lets two units of work of one association run at once.
\* A unit of work that is alone in flight for its association sees no
\* write to its record between the load and the persist of
\* parseAndPersistReplyContents, and persists an overlay of the record as
\* it is; with a second one in flight that is no longer so (the lost
\* update is the state C16_Witness).
C16_SingleRunNoInterference ==
  []SnapshotIsFresh /\ [][NoWriteBetweenLoadAndPersist]_vars

\* the lost update: u loaded the record as the scheduler wrote it, t then
\* persisted its reply, and u persisted its overlay of the stale snapshot
\* over it
C16_Witness ==
  \E t \in Tasks, u \in Tasks :
    /\ t # u
    /\ taskDoc[t] = taskDoc[u]
    /\ \E pt \in EventsAt(t, "persist"), lu \in EventsAt(u, "load"),
          pu \in EventsAt(u, "persist") :
         /\ trace[u][lu].arg.DocumentID # ""
         /\ trace[u][lu].arg.RuntimeStatus = EmptyMap
         /\ trace[t][pt].arg.RuntimeStatus # EmptyMap
         /\ trace[t][pt].arg.RuntimeStatus # trace[u][pu].arg.RuntimeStatus
         /\ store[taskDoc[t]][DefaultLocationOfCurrent] = trace[u][pu].arg

\* ------------------------------------------------------------------ C17
\* what a unit of work holds for itself
Local(t) ==
  <<pc[t], job[t], estep[t], docState[t], outputs[t],
    totalNumberOfActions[t], cancelFlag[t], ret[t], trace[t]>>

\* a step is the step of one unit of work: what the others hold and the
\* records of the other associations stay as they are
OneAssociationPerStep ==
  \E t \in Tasks :
    \A u \in Tasks \ {t} :
      /\ Local(u)' = Local(u)
      /\ store'[taskDoc[u]] = store[taskDoc[u]]

\* the record of a unit of work is where, and what, its own steps made it
RecordByOwnSteps(t) ==
  LET d == taskDoc[t]
      only(location, info) ==
        store[d] = [l \in Locations |-> IF l = location THEN info ELSE NoDoc]
  IN /\ MovesAt(t, DefaultLocationOfPending, DefaultLocationOfCurrent) = {}
          => only(DefaultLocationOfPending, NewDocumentInfo(d))
     /\ (EventsAt(t, "persist") # {}
           /\ MovesAt(t, DefaultLocationOfCurrent, DefaultLocationOfCompleted) = {})
          => only(DefaultLocationOfCurrent, docState[t])
     /\ MovesAt(t, DefaultLocationOfCurrent, DefaultLocationOfCompleted) # {}
          => only(DefaultLocationOfCompleted, docState[t])

\* every access of the store and every report names the own association
OwnRecordOnly(t) ==
  /\ pc[t] # "idle" => docState[t].DocumentID = NewDocumentInfo(taskDoc[t]).DocumentID
  /\ \A i \in EventsAt(t, "load") \cup EventsAt(t, "persist") :
       trace[t][i].arg.AssociationID = AssociationOf(t)
  /\ \A i \in EventsAt(t, "report") :
       trace[t][i].arg.associationID = AssociationOf(t)
  /\ \A i \in EventsAt(t, "UpdateNextScheduledDate") :
       trace[t][i].arg = AssociationOf(t)

\* C17: units of work of different associations share the durable store
\* only, and each touches its own record only: under every interleaving a
\* step changes what one unit of work holds and the record of its
\* association, every load, persist, move and report names the own
\* association, and the location and content of a record are those its
\* own unit of work gave it.
C17_Isolation ==
  /\ [](\A t \in Tasks : RecordByOwnSteps(t) /\ OwnRecordOnly(t))
  /\ [][OneAssociationPerStep]_vars

\* two units of work ran side by side: both have persisted their reply,
\* one failed and one succeeded, and both are about to move their record
C17_Witness ==
  /\ \A t \in Tasks : job[t] = "move"
  /\ taskDoc[1] # taskDoc[2]
  /\ \A t \in Tasks : store[taskDoc[t]][DefaultLocationOfCurrent] = docState[t]
  /\ docState[1].DocumentStatus = ResultStatusFailed
  /\ docState[2].DocumentStatus = ResultStatusSuccess
  /\ ReportsAt(1, {AssociationStatusNameFailed}) # {}
  /\ ReportsAt(2, {AssociationStatusSuccess}) # {}

====
